---- MODULE Spec2Model ----
(***************************************************************************)
(* Order lifecycle, payment reconciliation and job dispatch of the         *)
(* food-delivery backend (app/service, app/task, app/api/v1).              *)
(*                                                                         *)
(* The specifications share the variables:                                 *)
(*   Spec      the order handlers run one at a time (each handler is one   *)
(*             atomic step: load, validate, mutate, commit);               *)
(*   SpecConc  OrderService.update_order_status split at its two database  *)
(*             round trips (SELECT, then UPDATE at commit), two callers;   *)
(*   SpecPay   payment intents, the Stripe webhook, the process_payment    *)
(*             job and the check_pending_payments poll;                    *)
(*   SpecRefund  create_payment_intent and the process_refund job on       *)
(*             payment rows in every status the reconciliation leaves;     *)
(*   SpecAssign  delivery-partner assignment: the service call, the order  *)
(*             PATCH endpoint and concurrent accept_delivery requests;     *)
(*   SpecSweep the order handlers over orders placed before the payment    *)
(*             timeout and after it;                                       *)
(*   SpecWs    the websocket connection registry and its sends;            *)
(*   SpecHook  the Stripe webhook followed by the process_payment job;     *)
(*   SpecEntry the order PATCH endpoint and the websocket order_update     *)
(*             message as entry points of a status change;                 *)
(*   SpecCreate  POST /orders;                                             *)
(*   SpecPoll  the scheduled sweeps with a commit that can fail;           *)
(*   SpecCancel  a customer's cancellation: PATCH, job and cancel_order.   *)
(***************************************************************************)
EXTENDS Integers, Sequences, FiniteSets, Bags, TLC

VARIABLES orders, payments, intent, queue, now, last, sess, raced, events, hooked,
          manager, sockets, order_items

vars == <<orders, payments, intent, queue, now, last, sess, raced, events, hooked,
          manager, sockets, order_items>>

(***************************************************************************)
(* Bounds                                                                  *)
(***************************************************************************)
NumOrders == 1
MaxTime == 7
MaxPayments == 2
MaxQueue == 2
MaxPayTime == 11
NumEvents == 1

(***************************************************************************)
(* app/models/order.py                                                     *)
(***************************************************************************)
\* OrderStatus member names; OrderStatusValue maps a name to its value.
OrderStatus ==
    {"PENDING", "CONFIRMED", "PREPARING", "READY_FOR_PICKUP",
     "OUT_FOR_DELIVERY", "DELIVERED", "CANCELLED", "REFUNDED"}

OrderStatusValue ==
    [PENDING |-> "pending", CONFIRMED |-> "confirmed", PREPARING |-> "preparing",
     READY_FOR_PICKUP |-> "ready_for_pickup", OUT_FOR_DELIVERY |-> "out_for_delivery",
     DELIVERED |-> "delivered", CANCELLED |-> "cancelled", REFUNDED |-> "refunded"]

\* Attributes a Python Enum member has (what `member.<attr>` can read).
EnumMemberAttributes == {"name", "value"}

OrderIds == 1..NumOrders

\* An id no order has (the lookup returns None).
MissingId == 0

OrderIdInputs == OrderIds \cup {MissingId}

\* NULL for the nullable DateTime columns.
NULL == 0

\* Order.customer_id; user 2 is somebody else.
CustomerId == 1

UserIds == {1, 2}

\* Order.total_amount of every order of the model (whole currency units).
TotalAmount == 2

\* A freshly inserted Order row: column defaults of the model.
Order(t) ==
    [status |-> "PENDING", prepared_at |-> NULL, picked_up_at |-> NULL,
     delivered_at |-> NULL, cancelled_at |-> NULL, customer_id |-> CustomerId,
     created_at |-> t, delivery_partner_id |-> NULL, total_amount |-> TotalAmount]

\* What a query for a missing row yields.
NoOrder == [status |-> "none"]

get_order_by_id(order_id) ==
    IF order_id \in OrderIds THEN orders[order_id] ELSE NoOrder

(***************************************************************************)
(* app/service/order_service.py                                            *)
(***************************************************************************)
valid_transitions ==
    [PENDING |-> {"CONFIRMED", "CANCELLED"},
     CONFIRMED |-> {"PREPARING", "CANCELLED"},
     PREPARING |-> {"READY_FOR_PICKUP", "CANCELLED"},
     READY_FOR_PICKUP |-> {"OUT_FOR_DELIVERY"},
     OUT_FOR_DELIVERY |-> {"DELIVERED"}]

\* The timestamp chain of OrderService.update_order_status.
ServiceStamp(order, new_status, t) ==
    IF new_status = "PREPARING" THEN [order EXCEPT !.prepared_at = t]
    ELSE IF new_status = "OUT_FOR_DELIVERY" THEN [order EXCEPT !.picked_up_at = t]
    ELSE IF new_status = "DELIVERED" THEN [order EXCEPT !.delivered_at = t]
    ELSE IF new_status = "CANCELLED" THEN [order EXCEPT !.cancelled_at = t]
    ELSE order

\* OrderService.update_order_status on the row it loaded: the outcome and
\* the row as the session holds it at commit.
OrderService_update_order_status(order, new_status, t) ==
    IF order = NoOrder
    THEN [ok |-> FALSE, error |-> "NotFoundException", order |-> order]
    ELSE IF order.status \in DOMAIN valid_transitions
            /\ new_status \notin valid_transitions[order.status]
    THEN [ok |-> FALSE, error |-> "ValidationException", order |-> order]
    ELSE [ok |-> TRUE, error |-> "none",
          order |-> ServiceStamp([order EXCEPT !.status = new_status], new_status, t)]

\* A cancel_order without the test of the order's status.
cancel_order_anystatus(order, user_id, t) ==
    IF order = NoOrder
    THEN [ok |-> FALSE, error |-> "NotFoundException", order |-> order]
    ELSE IF order.customer_id # user_id
    THEN [ok |-> FALSE, error |-> "AuthorizationException", order |-> order]
    ELSE [ok |-> TRUE, error |-> "none",
          order |-> [order EXCEPT !.status = "CANCELLED", !.cancelled_at = t]]

\* OrderService.cancel_order.
cancel_order(order, user_id, t) ==
    IF order = NoOrder
    THEN [ok |-> FALSE, error |-> "NotFoundException", order |-> order]
    ELSE IF order.customer_id # user_id
    THEN [ok |-> FALSE, error |-> "AuthorizationException", order |-> order]
    ELSE IF order.status \notin {"PENDING", "CONFIRMED"}
    THEN [ok |-> FALSE, error |-> "ValidationException", order |-> order]
    ELSE [ok |-> TRUE, error |-> "none",
          order |-> [order EXCEPT !.status = "CANCELLED", !.cancelled_at = t]]

\* OrderService.assign_delivery_partner on the row it loaded.  The only
\* test is the status; the partner column is written whatever it holds.
OrderService_assign_delivery_partner(order, delivery_partner_id) ==
    IF order = NoOrder
    THEN [ok |-> FALSE, error |-> "NotFoundException", order |-> order]
    ELSE IF order.status # "READY_FOR_PICKUP"
    THEN [ok |-> FALSE, error |-> "ValidationException", order |-> order]
    ELSE [ok |-> TRUE, error |-> "none",
          order |-> [order EXCEPT !.delivery_partner_id = delivery_partner_id]]

(***************************************************************************)
(* app/task/order_task.py                                                  *)
(***************************************************************************)
\* The strings a job payload can carry: member names, member values.
StatusStrings == OrderStatus \cup {OrderStatusValue[s] : s \in OrderStatus}

\* The timestamp chain of the job: the payload string is compared with the
\* members' values.
JobStamp(order, new_status, t) ==
    IF new_status = OrderStatusValue["OUT_FOR_DELIVERY"] THEN [order EXCEPT !.picked_up_at = t]
    ELSE IF new_status = OrderStatusValue["DELIVERED"] THEN [order EXCEPT !.delivered_at = t]
    ELSE IF new_status = OrderStatusValue["CANCELLED"] THEN [order EXCEPT !.cancelled_at = t]
    ELSE order

\* A variant of the job that stamps by member name and commits.
update_order_status_stamping(order, new_status, t) ==
    IF order = NoOrder
    THEN [ok |-> FALSE, error |-> "none", order |-> order]
    ELSE IF new_status \notin OrderStatus
    THEN [ok |-> FALSE, error |-> "KeyError", order |-> order]
    ELSE [ok |-> TRUE, error |-> "none",
          order |-> ServiceStamp([order EXCEPT !.status = new_status], new_status, t)]

\* The update_order_status job on the row it loaded.  OrderStatus[new_status]
\* looks the payload up by member NAME (KeyError otherwise); the first test of
\* the timestamp chain reads OrderStatus.PREPARING.values, an attribute no
\* member has (AttributeError).  Both are caught by `except Exception`, which
\* rolls the session back and returns False, so the row is the one loaded.
update_order_status(order, new_status, t) ==
    IF order = NoOrder
    THEN [ok |-> FALSE, error |-> "none", order |-> order]
    ELSE IF new_status \notin OrderStatus
    THEN [ok |-> FALSE, error |-> "KeyError", order |-> order]
    ELSE IF "values" \notin EnumMemberAttributes
    THEN [ok |-> FALSE, error |-> "AttributeError", order |-> order]
    ELSE [ok |-> TRUE, error |-> "none",
          order |-> JobStamp([order EXCEPT !.status = new_status], new_status, t)]

\* Restaurant.owner_id of the restaurant every order of the model is for.
RestaurantOwnerId == 3

\* The order_status_update notification for user_id as the job sends it.
StatusNotification(user_id, order_id, old_status, new_status) ==
    [name |-> "app.tasks.notification_tasks.send_websocket_notification",
     args |-> <<user_id, "order_status_update", order_id, old_status, new_status>>]

\* What a run of the job that reached its commit sends: the notification
\* twice, both times to the restaurant's owner.
JobNotifications(order_id, old_status, new_status) ==
    [m \in {StatusNotification(RestaurantOwnerId, order_id, old_status, new_status)} |-> 2]

\* A sweep that compares Order.status with the member PENDING.
OrderStatusPending == "PENDING"

\* What auto_cancel_unpaid_order compares Order.status with: the enum class
\* itself, which is no member.
OrderStatusClass == "OrderStatus"

\* Minutes added to now() for the sweep's cutoff.
AutoCancelMinutes == 15

\* The rows the sweep's query selects.
unpaid_orders(t) ==
    {o \in OrderIds : orders[o].status = OrderStatusClass
                      /\ orders[o].created_at < t + AutoCancelMinutes}

(***************************************************************************)
(* History of the last handler run (for stating the properties).           *)
(***************************************************************************)
NoRun == [op |-> "none"]

Ran(op, order_id, target, res, before) ==
    [op |-> op, order_id |-> order_id, target |-> target, ok |-> res.ok,
     error |-> res.error, before |-> before, after |-> res.order]

Store(order_id, order) ==
    IF order_id \in OrderIds /\ order # NoOrder
    THEN [orders EXCEPT ![order_id] = order]
    ELSE orders

(***************************************************************************)
(* Spec: the order handlers, one at a time.                                *)
(***************************************************************************)
\* src/app/utils/websocket_manager.py: the roles ConnectionManager keeps a list for.
RoleNames == {"customer", "restaurant_owner", "delivery_partner", "admin"}

\* ConnectionManager.__init__: an empty user map and one empty list per role.
ConnectionManager ==
    [user_connection |-> <<>>, role_connection |-> [r \in RoleNames |-> <<>>]]

WsIdle ==
    /\ manager = ConnectionManager
    /\ sockets = <<>>

\* No OrderItem rows.
ItemsIdle == order_items = <<>>

PayIdle ==
    /\ payments = <<>>
    /\ intent = <<>>
    /\ events = {}
    /\ hooked = {}

ConcIdle ==
    /\ sess = <<>>
    /\ raced = {}

Init ==
    /\ orders = [o \in OrderIds |-> Order(0)]
    /\ queue = <<>>
    /\ now = 1
    /\ last = NoRun
    /\ PayIdle
    /\ ConcIdle
    /\ WsIdle
    /\ ItemsIdle

ServiceUpdateOrderStatus(order_id, new_status) ==
    /\ now < MaxTime
    /\ LET order == get_order_by_id(order_id)
           res == OrderService_update_order_status(order, new_status, now)
       IN /\ orders' = Store(order_id, res.order)
          /\ last' = Ran("service", order_id, new_status, res, order)
    /\ now' = now + 1
    /\ UNCHANGED <<payments, intent, queue, sess, raced, events, hooked, manager, sockets, order_items>>

ServiceCancelOrder(order_id, user_id) ==
    /\ now < MaxTime
    /\ LET order == get_order_by_id(order_id)
           res == cancel_order(order, user_id, now)
       IN /\ orders' = Store(order_id, res.order)
          /\ last' = Ran("cancel", order_id, "CANCELLED", res, order) @@ [user_id |-> user_id]
    /\ now' = now + 1
    /\ UNCHANGED <<payments, intent, queue, sess, raced, events, hooked, manager, sockets, order_items>>

JobUpdateOrderStatus(order_id, new_status) ==
    /\ now < MaxTime
    /\ LET order == get_order_by_id(order_id)
           res == update_order_status(order, new_status, now)
       IN /\ orders' = Store(order_id, res.order)
          /\ queue' = IF res.ok
                       THEN queue (+) JobNotifications(order_id, order.status, new_status)
                       ELSE queue
          /\ last' = Ran("job", order_id, new_status, res, order)
    /\ now' = now + 1
    /\ UNCHANGED <<payments, intent, sess, raced, events, hooked, manager, sockets, order_items>>

\* The notification auto_cancel_unpaid_order builds for one cancelled order.
CancelNotification(order_id) ==
    [name |-> "app.tasks.notification_tasks.send_websocket_notification",
     args |-> <<orders[order_id].customer_id, "order_cancelled", order_id, "Payment timeout">>]

\* auto_cancel_unpaid_order at time t: every selected order is cancelled and
\* stamped and its customer's notification is sent, then one commit.
auto_cancel_unpaid_order(t) ==
    [orders |-> [o \in OrderIds |->
                    IF o \in unpaid_orders(t)
                    THEN [orders[o] EXCEPT !.status = "CANCELLED", !.cancelled_at = t]
                    ELSE orders[o]],
     sent |-> [m \in {CancelNotification(o) : o \in unpaid_orders(t)} |-> 1],
     cancelled_count |-> Cardinality(unpaid_orders(t))]

AutoCancelUnpaidOrder ==
    /\ now < MaxTime
    /\ LET res == auto_cancel_unpaid_order(now)
       IN /\ orders' = res.orders
          /\ queue' = queue (+) res.sent
          /\ last' = [op |-> "sweep", cancelled_count |-> res.cancelled_count,
                      before |-> orders, sent |-> res.sent]
    /\ now' = now + 1
    /\ UNCHANGED <<payments, intent, sess, raced, events, hooked, manager, sockets, order_items>>

Next ==
    \/ \E o \in OrderIdInputs, s \in OrderStatus : ServiceUpdateOrderStatus(o, s)
    \/ \E o \in OrderIdInputs, u \in UserIds : ServiceCancelOrder(o, u)
    \/ \E o \in OrderIdInputs, s \in StatusStrings : JobUpdateOrderStatus(o, s)
    \/ AutoCancelUnpaidOrder

Spec == Init /\ [][Next]_vars

(***************************************************************************)
(* SpecSweep: the same handlers over orders of which some were placed long *)
(* before the clock starts, so that the sweep meets orders past the        *)
(* payment timeout.                                                        *)
(***************************************************************************)
\* Placed more than AutoCancelMinutes before every time the clock reaches.
OldCreatedAt == 0 - (AutoCancelMinutes + MaxTime)

InitSweep ==
    /\ orders \in [OrderIds -> {Order(OldCreatedAt), Order(0)}]
    /\ queue = <<>>
    /\ now = 1
    /\ last = NoRun
    /\ PayIdle
    /\ ConcIdle
    /\ WsIdle
    /\ ItemsIdle

SpecSweep == InitSweep /\ [][Next]_vars

(***************************************************************************)
(* SpecConc: OrderService.update_order_status with its two database round  *)
(* trips as separate steps, run by concurrent callers.                     *)
(***************************************************************************)
NumCallers == 2

\* Clock bound for SpecConc (three loads).
MaxConcTime == 4

Callers == 1..NumCallers

Idle == [pc |-> "idle"]

\* The UPDATE the session flushes at commit: only the columns whose value
\* the handler changed on the loaded row are written.
Flush(row, base, edited) ==
    [f \in DOMAIN row |-> IF edited[f] # base[f] THEN edited[f] ELSE row[f]]

InitConc ==
    /\ orders = [o \in OrderIds |-> Order(0)]
    /\ queue = <<>>
    /\ now = 1
    /\ last = NoRun
    /\ PayIdle
    /\ sess = [p \in Callers |-> Idle]
    /\ raced = {}
    /\ WsIdle
    /\ ItemsIdle

\* get_order_by_id, the transition check and the edits on the loaded row.
ServiceLoad(p, order_id, new_status) ==
    /\ now < MaxConcTime
    /\ sess[p].pc = "idle"
    /\ LET order == get_order_by_id(order_id)
           res == OrderService_update_order_status(order, new_status, now)
       IN sess' = [sess EXCEPT ![p] =
                     [pc |-> IF res.ok THEN "loaded" ELSE "done", order_id |-> order_id,
                      target |-> new_status, base |-> order, edited |-> res.order,
                      ok |-> res.ok, error |-> res.error]]
    /\ now' = now + 1
    /\ UNCHANGED <<orders, payments, intent, queue, last, raced, events, hooked, manager, sockets, order_items>>

\* self.db.commit(): the UPDATE is applied to the row as it is now.  Every
\* other caller that still holds the row it loaded before this write is
\* recorded in raced.
ServiceCommit(p) ==
    /\ sess[p].pc = "loaded"
    /\ LET o == sess[p].order_id
       IN /\ orders' = [orders EXCEPT ![o] = Flush(orders[o], sess[p].base, sess[p].edited)]
          /\ raced' = (raced \ {p}) \cup
                        {q \in Callers \ {p} : sess[q].pc = "loaded" /\ sess[q].order_id = o}
          /\ last' = [op |-> "commit", caller |-> p, order_id |-> o, error |-> "none",
                      stale |-> (p \in raced), before |-> orders[o], after |-> orders'[o]]
    /\ sess' = [sess EXCEPT ![p].pc = "done"]
    /\ UNCHANGED <<payments, intent, queue, now, events, hooked, manager, sockets, order_items>>

\* The request returns; the caller may issue another one.
ServiceReturn(p) ==
    /\ sess[p].pc = "done"
    /\ sess' = [sess EXCEPT ![p] = Idle]
    /\ UNCHANGED <<orders, payments, intent, queue, now, last, raced, events, hooked, manager, sockets, order_items>>

NextConc ==
    \/ \E p \in Callers, o \in OrderIdInputs, s \in OrderStatus : ServiceLoad(p, o, s)
    \/ \E p \in Callers : ServiceCommit(p)
    \/ \E p \in Callers : ServiceReturn(p)

SpecConc == InitConc /\ [][NextConc]_vars

(***************************************************************************)
(* app/models/payment.py, app/service/payment_service.py                   *)
(***************************************************************************)
PaymentStatus == {"PENDING", "PROCESSING", "COMPLETED", "FAILED", "CANCELLED", "REFUNDED"}

\* What stripe.PaymentIntent.retrieve(...).status can be: Stripe's intent
\* statuses and 'payment_failed', which check_stripe_payment_status tests for.
IntentStatus ==
    {"requires_payment_method", "requires_confirmation", "requires_action",
     "processing", "succeeded", "canceled", "payment_failed"}

\* The call raised stripe.error.StripeError instead of returning an intent.
StripeError == "StripeError"

\* A Payment row as create_payment_intent inserts it for an order; the
\* intent id is the row's own number.
Payment(id, order_id, order, t) ==
    [order_id |-> order_id, user_id |-> order.customer_id,
     stripe_payment_intent_id |-> id, amount |-> order.total_amount,
     status |-> "PENDING", failure_reason |-> "none", refund_amount |-> 0,
     refunded_at |-> NULL, created_at |-> t]

\* A variant of create_payment_intent that inserts and commits the row
\* before it calls the provider.
PaymentService_create_payment_intent_rowfirst(pays, prov, order_id, t, err) ==
    IF get_order_by_id(order_id) = NoOrder
    THEN [payments |-> pays, intent |-> prov, result |-> "None"]
    ELSE IF err
    THEN [payments |-> Append(pays, Payment(Len(pays) + 1, order_id,
                                            get_order_by_id(order_id), t)),
          intent |-> Append(prov, "none"), result |-> "None"]
    ELSE [payments |-> Append(pays, Payment(Len(pays) + 1, order_id,
                                            get_order_by_id(order_id), t)),
          intent |-> Append(prov, "requires_payment_method"), result |-> "intent"]

\* PaymentService.create_payment_intent: the order is looked up, the
\* provider intent is created, and only then a PENDING row is added and
\* committed.  err: stripe.PaymentIntent.create raised StripeError, which is
\* logged and answered with None.  No query looks for a Payment the order
\* already has.
PaymentService_create_payment_intent(pays, prov, order_id, t, err) ==
    IF get_order_by_id(order_id) = NoOrder
    THEN [payments |-> pays, intent |-> prov, result |-> "None"]
    ELSE IF err
    THEN [payments |-> pays, intent |-> prov, result |-> "None"]
    ELSE [payments |-> Append(pays, Payment(Len(pays) + 1, order_id,
                                            get_order_by_id(order_id), t)),
          intent |-> Append(prov, "requires_payment_method"), result |-> "intent"]

\* stripe.PaymentIntent.retrieve: the provider's status, or the error.
Retrieve(prov, intent_id, err) ==
    IF err THEN StripeError ELSE prov[intent_id]

\* PaymentService.process_stripe_payment: the row after the call (every
\* branch that edits it commits) and the value returned.
process_stripe_payment(payment, prov, err) ==
    IF payment.stripe_payment_intent_id = NULL
    THEN [payment |-> payment, success |-> FALSE]
    ELSE LET status == Retrieve(prov, payment.stripe_payment_intent_id, err)
         IN IF status = StripeError
            THEN [payment |-> [payment EXCEPT !.status = "FAILED", !.failure_reason = "StripeError"],
                  success |-> FALSE]
            ELSE IF status = "succeeded"
            THEN [payment |-> [payment EXCEPT !.status = "COMPLETED"], success |-> TRUE]
            ELSE IF status = "requires_payment_method"
            THEN [payment |-> [payment EXCEPT !.status = "FAILED",
                                              !.failure_reason = "Payment method required"],
                  success |-> FALSE]
            ELSE IF status = "canceled"
            THEN [payment |-> [payment EXCEPT !.status = "CANCELLED"], success |-> FALSE]
            ELSE [payment |-> payment, success |-> FALSE]

\* PaymentService.check_stripe_payment_status on what retrieve gave.
check_stripe_payment_status(status) ==
    IF status = StripeError THEN "FAILED"
    ELSE IF status = "succeeded" THEN "COMPLETED"
    ELSE IF status \in {"requires_payment_method", "payment_failed"} THEN "FAILED"
    ELSE IF status = "canceled" THEN "CANCELLED"
    ELSE IF status \in {"requires_confirmation", "requires_action"} THEN "PROCESSING"
    ELSE "PENDING"

\* What stripe.Refund.create(...).status can be, or the error raised.
RefundStatus == {"succeeded", "pending", "failed"}

RefundOutcomes == RefundStatus \cup {StripeError}

\* Attributes of the datetime class (`from datetime import datetime`).
DatetimeClassAttributes == {"utcnow", "now", "fromtimestamp", "strptime"}

\* Attributes of the datetime module, which is what `import datetime` binds
\* the name `datetime` to in payment_service.py.
DatetimeModuleAttributes == {"datetime", "date", "time", "timedelta", "timezone", "tzinfo"}

\* A variant of process_refund that commits status and refund_amount before
\* it stamps refunded_at.
PaymentService_process_refund_commitfirst(payment, refund_amount, refund, t) ==
    IF payment.stripe_payment_intent_id = NULL
    THEN [payment |-> payment, raised |-> "none", ret |-> FALSE]
    ELSE LET amount_to_refund == IF refund_amount # 0 THEN refund_amount ELSE payment.amount
             edited == [payment EXCEPT !.status = "REFUNDED",
                                       !.refund_amount = amount_to_refund]
         IN IF refund = StripeError
            THEN [payment |-> payment, raised |-> "none", ret |-> FALSE]
            ELSE IF refund = "succeeded"
            THEN IF "utcnow" \notin DatetimeModuleAttributes
                 THEN [payment |-> edited, raised |-> "AttributeError", ret |-> FALSE]
                 ELSE [payment |-> [edited EXCEPT !.refunded_at = t], raised |-> "none",
                       ret |-> TRUE]
            ELSE [payment |-> payment, raised |-> "none", ret |-> FALSE]

\* PaymentService.process_refund: the row as committed, the exception that
\* escapes (if any) and the value returned.  refund_amount 0 stands for
\* None (and 0.0): `refund_amount or payment.amount` is the full amount.
\* There is no test of payment.status and none of the amount against
\* payment.amount.  On a succeeded refund the method sets status and
\* refund_amount on the loaded object and then evaluates datetime.utcnow():
\* the name is the module, the attribute is missing, AttributeError escapes
\* before the commit, and the edits stay uncommitted in the session.
PaymentService_process_refund(payment, refund_amount, refund, t) ==
    IF payment.stripe_payment_intent_id = NULL
    THEN [payment |-> payment, raised |-> "none", ret |-> FALSE]
    ELSE LET amount_to_refund == IF refund_amount # 0 THEN refund_amount ELSE payment.amount
             edited == [payment EXCEPT !.status = "REFUNDED",
                                       !.refund_amount = amount_to_refund]
         IN IF refund = StripeError
            THEN [payment |-> payment, raised |-> "none", ret |-> FALSE]
            ELSE IF refund = "succeeded"
            THEN IF "utcnow" \notin DatetimeModuleAttributes
                 THEN [payment |-> payment, raised |-> "AttributeError", ret |-> FALSE]
                 ELSE [payment |-> [edited EXCEPT !.refunded_at = t], raised |-> "none",
                       ret |-> TRUE]
            ELSE [payment |-> payment, raised |-> "none", ret |-> FALSE]

(***************************************************************************)
(* The broker: a bag of the task messages sent.                            *)
(***************************************************************************)
\* Names under which the workers register the tasks (module path + function).
ProcessPaymentTask == "app.task.payment_task.process_payment"

\* The name check_pending_payments and process_refund address the order job by.
SentOrderTask == "app.tasks.order_tasks.update_order_status"

\* The name process_refund addresses the notification job by.
SentNotificationTask == "app.tasks.notification_tasks.send_websocket_notification"

\* send_task called without its positional `name`.
NoTaskName == "<missing>"

Message(name, args) == [name |-> name, args |-> args]

\* current_app.send_task(name, args=...): without a name the call raises
\* TypeError and nothing is sent.
send_task(q, name, args) ==
    IF name = NoTaskName
    THEN [raised |-> TRUE, queue |-> q]
    ELSE [raised |-> FALSE, queue |-> q (+) SetToBag({Message(name, args)})]

(***************************************************************************)
(* app/task/payment_task.py                                                *)
(***************************************************************************)
\* The process_payment job.  After a successful process_stripe_payment (which
\* has committed) the two send_task calls carry no task name: the first
\* raises, `except Exception` logs and the job returns False.
process_payment(pays, q, prov, payment_id, err) ==
    IF payment_id \notin DOMAIN pays
    THEN [payments |-> pays, queue |-> q, ret |-> FALSE]
    ELSE LET r == process_stripe_payment(pays[payment_id], prov, err)
             pays1 == [pays EXCEPT ![payment_id] = r.payment]
         IN IF r.success /\ pays[payment_id].order_id \in OrderIds
            THEN LET s1 == send_task(q, NoTaskName,
                                     <<pays[payment_id].order_id, OrderStatusValue["CONFIRMED"]>>)
                 IN IF s1.raised
                    THEN [payments |-> pays1, queue |-> s1.queue, ret |-> FALSE]
                    ELSE LET s2 == send_task(s1.queue, NoTaskName, <<pays[payment_id].order_id>>)
                         IN [payments |-> pays1, queue |-> s2.queue,
                             ret |-> IF s2.raised THEN FALSE ELSE r.success]
            ELSE [payments |-> pays1, queue |-> q, ret |-> r.success]

\* Minutes of grace before the poll looks at a payment.
PollGraceMinutes == 5

\* The rows check_pending_payments selects.
pending_payments(pays, t) ==
    {p \in DOMAIN pays : pays[p].status = "PENDING" /\ pays[p].created_at < t - PollGraceMinutes}

\* The status the poll computes for a selected row.
PolledStatus(pays, prov, errs, p) ==
    check_stripe_payment_status(Retrieve(prov, pays[p].stripe_payment_intent_id, p \in errs))

\* The rows the poll rewrites.
PollUpdated(pays, prov, t, errs) ==
    {p \in pending_payments(pays, t) :
        /\ pays[p].stripe_payment_intent_id # NULL
        /\ PolledStatus(pays, prov, errs, p) # pays[p].status}

OrderTransition(order_id, status) ==
    Message(SentOrderTask, <<order_id, OrderStatusValue[status]>>)

\* The order transitions the poll sends, as a bag.
PollSent(pays, prov, t, errs) ==
    LET target(p) == IF PolledStatus(pays, prov, errs, p) = "COMPLETED" THEN "CONFIRMED"
                     ELSE IF PolledStatus(pays, prov, errs, p) = "FAILED" THEN "CANCELLED"
                     ELSE "none"
        senders == {p \in PollUpdated(pays, prov, t, errs) : target(p) # "none"}
        msgs == {OrderTransition(pays[p].order_id, target(p)) : p \in senders}
    IN [m \in msgs |->
          Cardinality({p \in senders : OrderTransition(pays[p].order_id, target(p)) = m})]

\* The check_pending_payments job.
check_pending_payments(pays, q, prov, t, errs) ==
    [payments |-> [p \in DOMAIN pays |->
                     IF p \in PollUpdated(pays, prov, t, errs)
                     THEN [pays[p] EXCEPT !.status = PolledStatus(pays, prov, errs, p)]
                     ELSE pays[p]],
     queue |-> q (+) PollSent(pays, prov, t, errs),
     ret |-> Cardinality(PollUpdated(pays, prov, t, errs))]

\* The order transition and the customer notification process_refund sends.
RefundMessages(payment, refund_amount) ==
    SetToBag({Message(SentOrderTask, <<payment.order_id, OrderStatusValue["REFUNDED"]>>),
              Message(SentNotificationTask,
                      <<payment.user_id, "refund_processed", payment.order_id,
                        IF refund_amount # 0 THEN refund_amount ELSE payment.amount>>)})

\* A variant of the process_refund job that sends its two messages before it
\* looks at the service's answer.
process_refund_sendfirst(pays, q, payment_id, refund_amount, refund, t) ==
    IF payment_id \notin DOMAIN pays
    THEN [payments |-> pays, queue |-> q, ret |-> FALSE]
    ELSE LET r == PaymentService_process_refund(pays[payment_id], refund_amount, refund, t)
         IN [payments |-> [pays EXCEPT ![payment_id] = r.payment],
             queue |-> q (+) RefundMessages(pays[payment_id], refund_amount),
             ret |-> r.ret]

\* The process_refund job.  An exception out of the service is caught by
\* `except Exception`, which logs and returns False; the session is closed
\* in `finally`, which discards what was not committed.
process_refund(pays, q, payment_id, refund_amount, refund, t) ==
    IF payment_id \notin DOMAIN pays
    THEN [payments |-> pays, queue |-> q, ret |-> FALSE]
    ELSE LET r == PaymentService_process_refund(pays[payment_id], refund_amount, refund, t)
         IN [payments |-> [pays EXCEPT ![payment_id] = r.payment],
             queue |-> IF r.ret
                       THEN q (+) RefundMessages(r.payment, refund_amount)
                       ELSE q,
             ret |-> r.ret]

(***************************************************************************)
(* app/api/v1/payments.py                                                  *)
(***************************************************************************)
\* POST /payments/create-intent: the order must be the current user's
\* (404 otherwise); a None from the service is answered with 400.
create_payment_intent(pays, prov, order_id, user_id, t, err) ==
    IF get_order_by_id(order_id) = NoOrder \/ get_order_by_id(order_id).customer_id # user_id
    THEN [payments |-> pays, intent |-> prov, status_code |-> 404]
    ELSE LET r == PaymentService_create_payment_intent(pays, prov, order_id, t, err)
         IN [payments |-> r.payments, intent |-> r.intent,
             status_code |-> IF r.result = "None" THEN 400 ELSE 200]

(***************************************************************************)
(* SpecPay: intents, webhook, process_payment job, poll.                   *)
(***************************************************************************)
EventTypes == {"payment_intent.succeeded", "payment_intent.payment_failed"}

\* A webhook event: its id, its type and the intent (payment) it is about.
EventInputs == [id : 1..NumEvents, type : EventTypes, intent_id : 1..MaxPayments]

InitPay ==
    /\ orders = [o \in OrderIds |-> Order(0)]
    /\ payments = <<>>
    /\ intent = <<>>
    /\ queue = EmptyBag
    /\ now = 1
    /\ last = NoRun
    /\ events = {}
    /\ hooked = {}
    /\ ConcIdle
    /\ WsIdle
    /\ ItemsIdle

\* POST /payments/create-intent by user_id.
CreatePaymentIntent(order_id, user_id, err) ==
    /\ Len(payments) < MaxPayments
    /\ LET r == create_payment_intent(payments, intent, order_id, user_id, now, err)
       IN /\ payments' = r.payments
          /\ intent' = r.intent
          /\ last' = [op |-> "create_intent", order_id |-> order_id,
                      ok |-> (r.status_code = 200), status_code |-> r.status_code,
                      err |-> err, before |-> payments]
    /\ UNCHANGED <<orders, queue, now, sess, raced, events, hooked, manager, sockets, order_items>>

\* The provider moves an intent to another status; succeeded and canceled
\* are final at the provider.
ProviderReports(p, status) ==
    /\ p \in DOMAIN intent
    /\ intent[p] \notin {"succeeded", "canceled"}
    /\ intent[p] # status
    /\ intent' = [intent EXCEPT ![p] = status]
    /\ UNCHANGED <<orders, payments, queue, now, last, sess, raced, events, hooked, manager, sockets, order_items>>

PassTime(d) ==
    /\ now + d <= MaxPayTime
    /\ now' = now + d
    /\ UNCHANGED <<orders, payments, intent, queue, last, sess, raced, events, hooked, manager, sockets, order_items>>

\* A webhook that starts the job before it has verified the request.
stripe_webhook_sendfirst(q, event_type, order_id, verified) ==
    LET sent == IF event_type = "payment_intent.succeeded" /\ order_id # NULL
                THEN q (+) SetToBag({Message(ProcessPaymentTask, <<order_id>>)})
                ELSE q
    IN [status_code |-> IF verified THEN 200 ELSE 400, queue |-> sent]

\* stripe_webhook: verified is whether stripe.Webhook.construct_event
\* accepted the payload and its signature (ValueError and
\* SignatureVerificationError both answer 400); order_id is the event's
\* metadata order_id.
stripe_webhook(q, event_type, order_id, verified) ==
    IF ~verified
    THEN [status_code |-> 400, queue |-> q]
    ELSE IF event_type = "payment_intent.succeeded" /\ order_id # NULL
    THEN [status_code |-> 200,
          queue |-> q (+) SetToBag({Message(ProcessPaymentTask, <<order_id>>)})]
    ELSE [status_code |-> 200, queue |-> q]

\* POST /payments/webhook.  The provider sends a succeeded event for an
\* intent that has succeeded, a payment_failed event for one that is back at
\* requires_payment_method; an event id always carries the same event.  The
\* metadata order_id is the one create_payment_intent put on the intent.
StripeWebhook(e, sig_ok) ==
    /\ e.intent_id \in DOMAIN payments
    /\ \A d \in events : d.id = e.id => d = e
    /\ e.type = "payment_intent.succeeded" => intent[e.intent_id] = "succeeded"
    /\ e.type = "payment_intent.payment_failed" => intent[e.intent_id] = "requires_payment_method"
    /\ LET r == stripe_webhook(queue, e.type, payments[e.intent_id].order_id, sig_ok)
       IN /\ queue' = r.queue
          /\ BagCardinality(queue') <= MaxQueue
          /\ last' = [op |-> "webhook", event |-> e, sig_ok |-> sig_ok,
                      replay |-> (e \in events), status_code |-> r.status_code]
    /\ events' = IF sig_ok THEN events \cup {e} ELSE events
    /\ UNCHANGED <<orders, payments, intent, now, sess, raced, hooked, manager, sockets, order_items>>

\* A worker runs a process_payment message (delivery is at least once: the
\* message may be run again).
RunProcessPayment(payment_id, err) ==
    /\ BagIn(Message(ProcessPaymentTask, <<payment_id>>), queue)
    /\ LET r == process_payment(payments, queue, intent, payment_id, err)
           found == payment_id \in DOMAIN payments
       IN /\ payments' = r.payments
          /\ queue' = r.queue
          /\ BagCardinality(queue') <= MaxQueue
          /\ last' = [op |-> "process_payment", payment_id |-> payment_id, found |-> found,
                      resp |-> IF found THEN Retrieve(intent, payment_id, err) ELSE "none",
                      before |-> IF found THEN payments[payment_id].status ELSE "none",
                      after |-> IF found THEN r.payments[payment_id].status ELSE "none",
                      sent |-> BagCardinality(r.queue) - BagCardinality(queue)]
          /\ hooked' = IF found /\ payments[payment_id].status = "PENDING"
                          /\ Retrieve(intent, payment_id, err) = "succeeded"
                       THEN hooked \cup {payment_id}
                       ELSE hooked
    /\ UNCHANGED <<orders, intent, now, sess, raced, events, manager, sockets, order_items>>

\* A run of the check_pending_payments job; errs: the intents whose retrieve
\* raises during this run.
RunCheckPendingPayments(errs) ==
    /\ errs \subseteq DOMAIN payments
    /\ LET r == check_pending_payments(payments, queue, intent, now, errs)
       IN /\ payments' = r.payments
          /\ queue' = r.queue
          /\ BagCardinality(queue') <= MaxQueue
          /\ last' = [op |-> "poll", updated |-> PollUpdated(payments, intent, now, errs),
                      errs |-> errs, sent |-> BagCardinality(r.queue) - BagCardinality(queue)]
    /\ UNCHANGED <<orders, intent, now, sess, raced, events, hooked, manager, sockets, order_items>>

NextPay ==
    \/ \E o \in OrderIdInputs, u \in UserIds, err \in BOOLEAN : CreatePaymentIntent(o, u, err)
    \/ \E p \in 1..MaxPayments, s \in IntentStatus : ProviderReports(p, s)
    \/ PassTime(PollGraceMinutes)
    \/ \E e \in EventInputs, sig_ok \in BOOLEAN : StripeWebhook(e, sig_ok)
    \/ \E p \in 0..MaxPayments, err \in BOOLEAN : RunProcessPayment(p, err)
    \/ \E errs \in SUBSET (1..MaxPayments) : RunCheckPendingPayments(errs)

SpecPay == InitPay /\ [][NextPay]_vars

(***************************************************************************)
(* SpecRefund: create_payment_intent, the poll (which brings rows to       *)
(* every status it can leave) and the process_refund job.                  *)
(***************************************************************************)
\* Payment rows in SpecRefund.
MaxRefundRows == 1

\* What a query for a missing payment yields.
NoPayment == [status |-> "none"]

\* The provider moves SpecRefund puts in: with the initial
\* requires_payment_method they bring a polled row to each of PROCESSING,
\* COMPLETED, CANCELLED and FAILED.
RefundIntentStatus == {"requires_action", "succeeded", "canceled"}

\* create-intent calls that leave at most MaxRefundRows rows.
RefundCreatePaymentIntent(order_id, user_id, err) ==
    /\ CreatePaymentIntent(order_id, user_id, err)
    /\ Len(payments') <= MaxRefundRows

\* A worker runs process_refund(payment_id, refund_amount); refund is what
\* stripe.Refund.create answers.
RunProcessRefund(payment_id, refund_amount, refund) ==
    /\ LET r == process_refund(payments, queue, payment_id, refund_amount, refund, now)
           found == payment_id \in DOMAIN payments
       IN /\ payments' = r.payments
          /\ queue' = r.queue
          /\ BagCardinality(queue') <= MaxQueue
          /\ last' = [op |-> "refund", payment_id |-> payment_id,
                      refund_amount |-> refund_amount, refund |-> refund,
                      found |-> found, ret |-> r.ret,
                      before |-> IF found THEN payments[payment_id] ELSE NoPayment,
                      sent |-> BagCardinality(r.queue) - BagCardinality(queue)]
    /\ UNCHANGED <<orders, intent, now, sess, raced, events, hooked, manager, sockets, order_items>>

NextRefund ==
    \/ \E o \in OrderIdInputs, u \in UserIds, err \in BOOLEAN :
          RefundCreatePaymentIntent(o, u, err)
    \/ \E p \in 1..MaxRefundRows, s \in RefundIntentStatus : ProviderReports(p, s)
    \/ PassTime(PollGraceMinutes)
    \/ \E errs \in SUBSET (1..MaxRefundRows) : RunCheckPendingPayments(errs)
    \/ \E p \in 0..MaxRefundRows, a \in 0..(TotalAmount + 1), r \in RefundOutcomes :
          RunProcessRefund(p, a, r)

SpecRefund == InitPay /\ [][NextRefund]_vars

(***************************************************************************)
(* SpecHook: the webhook endpoint on events of every type, with the        *)
(* intents it is about and the job it starts.                              *)
(***************************************************************************)
\* The two types the endpoint handles and one it does not.
HookEventTypes == EventTypes \cup {"charge.refunded"}

HookEventInputs == [id : 1..NumEvents, type : HookEventTypes, intent_id : 1..MaxRefundRows]

NextHook ==
    \/ \E o \in OrderIdInputs, u \in UserIds, err \in BOOLEAN :
          RefundCreatePaymentIntent(o, u, err)
    \/ \E p \in 1..MaxRefundRows, s \in IntentStatus : ProviderReports(p, s)
    \/ \E e \in HookEventInputs, sig_ok \in BOOLEAN : StripeWebhook(e, sig_ok)
    \/ \E p \in 0..MaxRefundRows, err \in BOOLEAN : RunProcessPayment(p, err)

SpecHook == InitPay /\ [][NextHook]_vars

(***************************************************************************)
(* app/models/user.py, app/api/v1/order.py                                 *)
(***************************************************************************)
\* The users of the API: two customers (1 placed the orders), two restaurant
\* owners (3 owns the orders' restaurant), two delivery partners, one admin.
ApiUsers == 1..7

UserRole ==
    [u \in ApiUsers |->
        IF u \in {1, 2} THEN "customer"
        ELSE IF u \in {3, 4} THEN "restaurant_owner"
        ELSE IF u \in {5, 6} THEN "delivery_partner"
        ELSE "admin"]

DeliveryPartners == {u \in ApiUsers : UserRole[u] = "delivery_partner"}

\* The name update_order_status.delay(...) sends: the registered task name.
UpdateOrderStatusTask == "app.task.order_task.update_order_status"

\* The role test of PATCH /orders/{order_id} for a requested status.
PatchAuthorized(order, user_id, new_status) ==
    IF UserRole[user_id] = "restaurant_owner"
       /\ new_status \in {"CONFIRMED", "PREPARING", "READY_FOR_PICKUP"}
    THEN user_id = RestaurantOwnerId
    ELSE IF UserRole[user_id] = "delivery_partner"
            /\ new_status \in {"OUT_FOR_DELIVERY", "DELIVERED"}
    THEN order.delivery_partner_id = user_id
    ELSE IF UserRole[user_id] = "customer" /\ new_status = "CANCELLED"
    THEN order.customer_id = user_id /\ order.status \in {"PENDING", "CONFIRMED"}
    ELSE UserRole[user_id] = "admin"

\* PATCH /orders/{order_id} (update_order).  new_status "none" and
\* delivery_partner_id NULL stand for fields the body leaves out.  A
\* requested status is only handed to the update_order_status job; the
\* partner is written to the row, for an admin or any restaurant owner, in
\* whatever status the order is.
update_order(order, order_id, user_id, new_status, delivery_partner_id, q) ==
    IF order = NoOrder
    THEN [ok |-> FALSE, error |-> "NotFoundException", order |-> order, queue |-> q]
    ELSE IF new_status # "none" /\ ~PatchAuthorized(order, user_id, new_status)
    THEN [ok |-> FALSE, error |-> "AuthorizationException", order |-> order, queue |-> q]
    ELSE LET q1 == IF new_status # "none"
                   THEN q (+) SetToBag({Message(UpdateOrderStatusTask,
                                                <<order_id, OrderStatusValue[new_status]>>)})
                   ELSE q
         IN IF delivery_partner_id = NULL
            THEN [ok |-> TRUE, error |-> "none", order |-> order, queue |-> q1]
            ELSE IF UserRole[user_id] \notin {"admin", "restaurant_owner"}
            THEN [ok |-> FALSE, error |-> "AuthorizationException", order |-> order,
                  queue |-> q1]
            ELSE [ok |-> TRUE, error |-> "none",
                  order |-> [order EXCEPT !.delivery_partner_id = delivery_partner_id],
                  queue |-> q1]

\* PATCH /orders/delivery/{order_id}/accept (accept_delivery) on what its
\* query returns: the order if it is READY_FOR_PICKUP with no partner.
accept_delivery(order, user_id) ==
    IF order = NoOrder \/ order.status # "READY_FOR_PICKUP"
       \/ order.delivery_partner_id # NULL
    THEN [ok |-> FALSE, error |-> "NotFoundException", order |-> order]
    ELSE [ok |-> TRUE, error |-> "none",
          order |-> [order EXCEPT !.delivery_partner_id = user_id]]

(***************************************************************************)
(* SpecAssign: delivery-partner assignment.  Status transitions and the    *)
(* service and PATCH calls are single steps; an accept_delivery request is *)
(* its SELECT, then its UPDATE at commit, and requests run concurrently.   *)
(***************************************************************************)
\* Clock bound for SpecAssign (three status transitions).
MaxAssignTime == 4

InitAssign ==
    /\ orders = [o \in OrderIds |-> Order(0)]
    /\ queue = EmptyBag
    /\ now = 1
    /\ last = NoRun
    /\ PayIdle
    /\ sess = [p \in Callers |-> Idle]
    /\ raced = {}
    /\ WsIdle
    /\ ItemsIdle

AssignTransition(order_id, new_status) ==
    /\ now < MaxAssignTime
    /\ ServiceUpdateOrderStatus(order_id, new_status)

ServiceAssignDeliveryPartner(order_id, delivery_partner_id) ==
    /\ LET order == get_order_by_id(order_id)
           res == OrderService_assign_delivery_partner(order, delivery_partner_id)
       IN /\ orders' = Store(order_id, res.order)
          /\ last' = Ran("assign", order_id, delivery_partner_id, res, order)
    /\ UNCHANGED <<payments, intent, queue, now, sess, raced, events, hooked, manager, sockets, order_items>>

PatchOrder(user_id, order_id, new_status, delivery_partner_id) ==
    /\ LET order == get_order_by_id(order_id)
           res == update_order(order, order_id, user_id, new_status, delivery_partner_id,
                               queue)
       IN /\ orders' = Store(order_id, res.order)
          /\ queue' = res.queue
          /\ BagCardinality(queue') <= MaxQueue
          /\ last' = [op |-> "patch", order_id |-> order_id, user_id |-> user_id,
                      target |-> new_status, delivery_partner_id |-> delivery_partner_id,
                      ok |-> res.ok, error |-> res.error]
    /\ UNCHANGED <<payments, intent, now, sess, raced, events, hooked, manager, sockets, order_items>>

\* The SELECT of an accept_delivery request by delivery partner user_id and
\* the edit on the row it returned; with no row the request ends (404).
AcceptLoad(p, user_id, order_id) ==
    /\ sess[p].pc = "idle"
    /\ LET order == get_order_by_id(order_id)
           res == accept_delivery(order, user_id)
       IN /\ sess' = [sess EXCEPT ![p] =
                       IF res.ok
                       THEN [pc |-> "loaded", order_id |-> order_id, target |-> user_id,
                             base |-> order, edited |-> res.order, ok |-> TRUE,
                             error |-> "none"]
                       ELSE Idle]
          /\ last' = IF res.ok THEN last ELSE Ran("accept", order_id, user_id, res, order)
    /\ UNCHANGED <<orders, payments, intent, queue, now, raced, events, hooked, manager, sockets, order_items>>

\* The inputs SpecAssign gives the status transitions and the PATCH body.
AssignStatusInputs == {"CONFIRMED", "PREPARING", "READY_FOR_PICKUP"}

PatchStatusInputs == {"none", "CANCELLED"}

NextAssign ==
    \/ \E o \in OrderIds, s \in AssignStatusInputs : AssignTransition(o, s)
    \/ \E o \in OrderIdInputs, d \in DeliveryPartners : ServiceAssignDeliveryPartner(o, d)
    \/ \E u \in ApiUsers, o \in OrderIdInputs, s \in PatchStatusInputs,
          d \in DeliveryPartners \cup {NULL} : PatchOrder(u, o, s, d)
    \/ \E p \in Callers, u \in DeliveryPartners, o \in OrderIdInputs : AcceptLoad(p, u, o)
    \/ \E p \in Callers : ServiceCommit(p)
    \/ \E p \in Callers : ServiceReturn(p)

SpecAssign == InitAssign /\ [][NextAssign]_vars

(***************************************************************************)
(* SpecWs: the websocket connection registry (ConnectionManager): clients  *)
(* connect and drop, and messages are sent to one user, to a role and to   *)
(* everyone.  A websocket is known by its index in sockets.                *)
(***************************************************************************)
NumWsUsers == 2
MaxSockets == 2

\* The users that open websockets: a customer, a restaurant owner, then a
\* second customer and a delivery partner.
WsUserIds == <<1, 3, 2, 5>>

WsUsers == {WsUserIds[i] : i \in 1..NumWsUsers}

\* The websocket object the endpoint accepts for user_id.
\* open: its client is still there; failed_in: the first send whose write to
\* it raised.
WebSocket(user_id) ==
    [user_id |-> user_id, role |-> UserRole[user_id], open |-> TRUE, failed_in |-> "none"]

\* Optional[WebSocket]: no websocket.
NoSocket == 0

Handles == 1..Len(sockets)

\* Python values as dict keys: an int and a str never compare equal.
PyInt(n) == <<"int", n>>
PyStr(s) == <<"str", s>>

\* dict[key] = value
DictSet(d, key, value) == [k \in DOMAIN d \cup {key} |-> IF k = key THEN value ELSE d[k]]

\* dict.pop(key, None)
DictPop(d, key) == [k \in DOMAIN d \ {key} |-> d[k]]

\* dict.get(key)
DictGet(d, key) == IF key \in DOMAIN d THEN d[key] ELSE NoSocket

\* The attributes of a dict the manager's code could look up.
DictAttributes == {"get", "pop", "items", "keys", "values", "update", "clear"}

\* The methods ConnectionManager defines.
ConnectionManagerAttributes ==
    {"connect", "disconnect", "send_personal_msg", "send_to_role", "broadcast"}

\* A connect that appends to the role list when the role name is a key of the
\* role map.
connect_byrole(mgr, ws, user_id, user_role) ==
    LET users == DictSet(mgr.user_connection, user_id, ws)
    IN [user_connection |-> users,
        role_connection |->
            IF user_role \in DOMAIN mgr.role_connection
            THEN [mgr.role_connection EXCEPT ![user_role] = Append(@, ws)]
            ELSE mgr.role_connection]

\* ConnectionManager.connect after websocket.accept(): the user map entry is
\* overwritten; the role list is appended to when the role name is a key of
\* the user map.
connect(mgr, ws, user_id, user_role) ==
    LET users == DictSet(mgr.user_connection, user_id, ws)
    IN [user_connection |-> users,
        role_connection |->
            IF PyStr(user_role) \in {PyInt(u) : u \in DOMAIN users}
            THEN [mgr.role_connection EXCEPT ![user_role] = Append(@, ws)]
            ELSE mgr.role_connection]

\* ConnectionManager.disconnect: its first statement calls
\* self.user_connection.remove(user_id).
disconnect(mgr, user_id, user_role) ==
    IF "remove" \notin DictAttributes
    THEN [manager |-> mgr, error |-> "AttributeError"]
    ELSE [manager |-> [mgr EXCEPT !.user_connection = DictPop(mgr.user_connection, user_id)],
          error |-> "none"]

\* A send_personal_msg that keeps the user's entry when the write raises.
send_personal_msg_keep(mgr, user_id, fails) ==
    LET websocket == DictGet(mgr.user_connection, user_id)
    IN IF websocket = NoSocket
       THEN [manager |-> mgr, writes |-> <<>>, failed |-> {}]
       ELSE [manager |-> mgr, writes |-> <<websocket>>, failed |-> {websocket} \cap fails]

\* ConnectionManager.send_personal_msg; fails are the websockets whose
\* send_text raises.
send_personal_msg(mgr, user_id, fails) ==
    LET websocket == DictGet(mgr.user_connection, user_id)
    IN IF websocket = NoSocket
       THEN [manager |-> mgr, writes |-> <<>>, failed |-> {}]
       ELSE IF websocket \in fails
       THEN [manager |-> [mgr EXCEPT !.user_connection = DictPop(mgr.user_connection, user_id)],
             writes |-> <<websocket>>, failed |-> {websocket}]
       ELSE [manager |-> mgr, writes |-> <<websocket>>, failed |-> {}]

\* ConnectionManager.send_to_role: every websocket of the role's list is
\* written to; the failed ones are then removed from that list.
send_to_role(mgr, role, fails) ==
    IF role \notin DOMAIN mgr.role_connection
    THEN [manager |-> mgr, writes |-> <<>>, failed |-> {}]
    ELSE LET members == mgr.role_connection[role]
         IN [manager |-> [mgr EXCEPT !.role_connection[role] =
                                         SelectSeq(members, LAMBDA w : w \notin fails)],
             writes |-> members,
             failed |-> {members[i] : i \in DOMAIN members} \cap fails]

RECURSIVE SetToSeq(_)
SetToSeq(S) == IF S = {} THEN <<>>
               ELSE LET x == CHOOSE y \in S : \A z \in S : y <= z
                    IN <<x>> \o SetToSeq(S \ {x})

\* ConnectionManager.broadcast: every websocket of the user map is written
\* to; the users whose write failed are then popped.
broadcast(mgr, fails) ==
    LET users == mgr.user_connection
        disconnected == {u \in DOMAIN users : users[u] \in fails}
    IN [manager |-> [mgr EXCEPT !.user_connection =
                                    [u \in DOMAIN users \ disconnected |-> users[u]]],
        writes |-> SetToSeq({users[u] : u \in DOMAIN users}),
        failed |-> {users[u] : u \in disconnected}]

\* The Celery task send_websocket_notification: it calls
\* manager.send_personal_message, catches the exception and returns False.
send_websocket_notification(mgr, user_id, fails) ==
    IF "send_personal_message" \in ConnectionManagerAttributes
    THEN send_personal_msg(mgr, user_id, fails) @@ [ret |-> TRUE]
    ELSE [manager |-> mgr, writes |-> <<>>, failed |-> {}, ret |-> FALSE]

InitWs ==
    /\ orders = [o \in OrderIds |-> Order(0)]
    /\ queue = <<>>
    /\ now = 1
    /\ last = NoRun
    /\ PayIdle
    /\ ConcIdle
    /\ WsIdle
    /\ ItemsIdle

wsframe == <<orders, payments, intent, queue, now, sess, raced, events, hooked, order_items>>

\* A write to a websocket whose client is gone, or that has failed before,
\* raises; a write to any other may.
Broken(w) == ~sockets[w].open \/ sockets[w].failed_in # "none"

FailSets == {fails \in SUBSET Handles : \A w \in Handles : Broken(w) => w \in fails}

\* The websockets after the writes of send op to failed have raised.
Failed(op, failed) ==
    [w \in Handles |-> IF w \in failed /\ sockets[w].failed_in = "none"
                       THEN [sockets[w] EXCEPT !.failed_in = op]
                       ELSE sockets[w]]

\* GET /ws/{token}: websocket_endpoint registers the connection.
WsConnect(user_id) ==
    /\ Len(sockets) < MaxSockets
    /\ sockets' = Append(sockets, WebSocket(user_id))
    /\ manager' = connect(manager, Len(sockets) + 1, user_id, UserRole[user_id])
    /\ last' = [op |-> "connect", user_id |-> user_id, ws |-> Len(sockets) + 1,
                before |-> manager]
    /\ UNCHANGED wsframe

\* The client of websocket ws goes away: the endpoint's receive raises
\* WebSocketDisconnect and the handler calls manager.disconnect.
WsDisconnect(ws) ==
    /\ sockets[ws].open
    /\ LET res == disconnect(manager, sockets[ws].user_id, sockets[ws].role)
       IN /\ manager' = res.manager
          /\ last' = [op |-> "disconnect", user_id |-> sockets[ws].user_id, ws |-> ws,
                      error |-> res.error, before |-> manager]
    /\ sockets' = [sockets EXCEPT ![ws].open = FALSE]
    /\ UNCHANGED wsframe

Sent(op, target, res) ==
    /\ manager' = res.manager
    /\ sockets' = Failed(op, res.failed)
    /\ last' = [op |-> op, target |-> target, writes |-> res.writes, failed |-> res.failed,
                before |-> manager]
    /\ UNCHANGED wsframe

SendPersonalMsg(user_id) ==
    \E fails \in FailSets : Sent("send_personal_msg", user_id, send_personal_msg(manager, user_id, fails))

\* broadcast_system_notification with target roles.
SendToRole(role) ==
    \E fails \in FailSets : Sent("send_to_role", role, send_to_role(manager, role, fails))

\* broadcast_system_notification without target roles.
Broadcast ==
    \E fails \in FailSets : Sent("broadcast", "all", broadcast(manager, fails))

SendWebsocketNotification(user_id) ==
    \E fails \in FailSets :
        Sent("send_websocket_notification", user_id,
             send_websocket_notification(manager, user_id, fails))

RoleInputs == RoleNames \cup {"guest"}

NextWs ==
    \/ \E u \in WsUsers : WsConnect(u)
    \/ \E w \in Handles : WsDisconnect(w)
    \/ \E u \in WsUsers : SendPersonalMsg(u)
    \/ \E r \in RoleInputs : SendToRole(r)
    \/ Broadcast
    \/ \E u \in WsUsers : SendWebsocketNotification(u)

SpecWs == InitWs /\ [][NextWs]_vars

(***************************************************************************)
(* SpecEntry: the two entry points that hand a status to the               *)
(* update_order_status job: PATCH /orders/{order_id} and the realtime      *)
(* order_update message.                                                   *)
(***************************************************************************)
MaxEntryQueue == 1

\* handle_order_update: without both fields it returns; the query joins the
\* order with its restaurant and filters on the owner; the status string is
\* passed on as it came.
handle_order_update_anyowner(order, user_id, order_id, new_status, q) ==
    IF order_id = NULL \/ new_status = ""
    THEN q
    ELSE IF order = NoOrder
    THEN q
    ELSE q (+) SetToBag({Message(UpdateOrderStatusTask, <<order_id, new_status>>)})

handle_order_update(order, user_id, order_id, new_status, q) ==
    IF order_id = NULL \/ new_status = ""
    THEN q
    ELSE IF order = NoOrder \/ user_id # RestaurantOwnerId
    THEN q
    ELSE q (+) SetToBag({Message(UpdateOrderStatusTask, <<order_id, new_status>>)})

\* websocket_endpoint on a message of type order_update from user_id.
order_update(order, user_id, order_id, new_status, q) ==
    IF UserRole[user_id] = "restaurant_owner"
    THEN handle_order_update(order, user_id, order_id, new_status, q)
    ELSE q

\* A customer, the owner of the orders' restaurant, another owner, a
\* delivery partner and an admin.
EntryUsers == {1, 3, 4, 5, 7}

\* The partner an order of SpecEntry may have been given.
EntryPartner == 5

\* Statuses a PATCH body asks for and status strings a message carries.
EntryPatchStatus == {"CONFIRMED", "PREPARING", "DELIVERED", "CANCELLED"}

EntryMessageStatus == {"", OrderStatusValue["PREPARING"], OrderStatusValue["DELIVERED"]}

\* Orders as placed, or READY_FOR_PICKUP with a delivery partner.
InitEntry ==
    /\ orders \in [OrderIds ->
                     {Order(0),
                      [Order(0) EXCEPT !.status = "READY_FOR_PICKUP",
                                       !.delivery_partner_id = EntryPartner]}]
    /\ queue = EmptyBag
    /\ now = 1
    /\ last = NoRun
    /\ PayIdle
    /\ ConcIdle
    /\ WsIdle
    /\ ItemsIdle

EntryPatch(user_id, order_id, new_status) ==
    /\ PatchOrder(user_id, order_id, new_status, NULL)
    /\ BagCardinality(queue') <= MaxEntryQueue

WsOrderUpdate(user_id, order_id, new_status) ==
    /\ queue' = order_update(get_order_by_id(order_id), user_id, order_id, new_status, queue)
    /\ BagCardinality(queue') <= MaxEntryQueue
    /\ last' = [op |-> "order_update", user_id |-> user_id, order_id |-> order_id,
                target |-> new_status, before |-> orders,
                sent |-> BagCardinality(queue') - BagCardinality(queue)]
    /\ UNCHANGED <<orders, payments, intent, now, sess, raced, events, hooked, manager, sockets, order_items>>

NextEntry ==
    \/ \E u \in EntryUsers, o \in OrderIdInputs, s \in EntryPatchStatus : EntryPatch(u, o, s)
    \/ \E u \in EntryUsers, o \in OrderIdInputs, s \in EntryMessageStatus :
          WsOrderUpdate(u, o, s)

SpecEntry == InitEntry /\ [][NextEntry]_vars

(***************************************************************************)
(* SpecPoll: the scheduled sweeps with a commit that can fail.  Both       *)
(* sweeps send their follow-up jobs inside the loop and commit once after  *)
(* it; a commit that raises is caught, the session is rolled back and the  *)
(* run returns 0.                                                          *)
(***************************************************************************)
\* check_pending_payments when db.commit() raises: the except branch rolls
\* the rows back; the messages the loop sent have left the process.
check_pending_payments_rollback(pays, q, prov, t, errs) ==
    [payments |-> pays,
     queue |-> q (+) PollSent(pays, prov, t, errs),
     ret |-> 0]

\* A run of the check_pending_payments job whose commit raises.
RunCheckPendingPaymentsCommitFails(errs) ==
    /\ errs \subseteq DOMAIN payments
    /\ LET r == check_pending_payments_rollback(payments, queue, intent, now, errs)
       IN /\ payments' = r.payments
          /\ queue' = r.queue
          /\ BagCardinality(queue') <= MaxQueue
          /\ last' = [op |-> "poll", updated |-> {}, errs |-> errs,
                      sent |-> BagCardinality(r.queue) - BagCardinality(queue)]
    /\ UNCHANGED <<orders, intent, now, sess, raced, events, hooked, manager, sockets, order_items>>

NextPoll ==
    \/ \E o \in OrderIdInputs, u \in UserIds, err \in BOOLEAN : CreatePaymentIntent(o, u, err)
    \/ \E p \in 1..MaxPayments, s \in IntentStatus : ProviderReports(p, s)
    \/ PassTime(PollGraceMinutes)
    \/ \E errs \in SUBSET (1..MaxPayments) : RunCheckPendingPayments(errs)
    \/ \E errs \in SUBSET (1..MaxPayments) : RunCheckPendingPaymentsCommitFails(errs)
    \/ AutoCancelUnpaidOrder

SpecPoll == InitPay /\ [][NextPoll]_vars

(***************************************************************************)
(* SpecCancel: a customer's cancellation.  The PATCH request hands         *)
(* CANCELLED to the update_order_status job, which a worker runs later;    *)
(* the order moves on in between; cancel_order is the synchronous call.    *)
(***************************************************************************)
\* Clock bound for SpecCancel (two status transitions, then a cancellation).
MaxCancelTime == 4

InitCancel ==
    /\ orders = [o \in OrderIds |-> Order(0)]
    /\ queue = EmptyBag
    /\ now = 1
    /\ last = NoRun
    /\ PayIdle
    /\ ConcIdle
    /\ WsIdle
    /\ ItemsIdle

CancelTransition(order_id, new_status) ==
    /\ now < MaxCancelTime
    /\ ServiceUpdateOrderStatus(order_id, new_status)

\* PATCH /orders/{order_id} with status cancelled, by a customer.
CancelPatch(user_id, order_id) == PatchOrder(user_id, order_id, "CANCELLED", NULL)

\* A worker runs an update_order_status message of the queue.
RunUpdateOrderStatus(order_id, new_status) ==
    /\ now < MaxCancelTime
    /\ BagIn(Message(UpdateOrderStatusTask, <<order_id, new_status>>), queue)
    /\ JobUpdateOrderStatus(order_id, new_status)

CancelCall(order_id, user_id) ==
    /\ now < MaxCancelTime
    /\ ServiceCancelOrder(order_id, user_id)

NextCancel ==
    \/ \E o \in OrderIds, s \in {"CONFIRMED", "PREPARING"} : CancelTransition(o, s)
    \/ \E u \in UserIds, o \in OrderIdInputs : CancelPatch(u, o)
    \/ \E o \in OrderIds, s \in StatusStrings : RunUpdateOrderStatus(o, s)
    \/ \E o \in OrderIdInputs, u \in UserIds : CancelCall(o, u)

SpecCancel == InitCancel /\ [][NextCancel]_vars

(***************************************************************************)
(* SpecCreate: POST /orders.  Money is in hundredths, so that the 8% tax   *)
(* of the menu's prices is a whole number.                                 *)
(***************************************************************************)
MaxCreated == 2
MaxItems == 1

\* The restaurants: 1 is active, 2 is not; a query filters on is_active.
Restaurants ==
    [r \in {1, 2} |-> [minimum_order |-> 3000, delivery_fee |-> 200, is_active |-> (r = 1)]]

\* The menu of restaurant 1; item 2 is not available.
MenuItems ==
    [m \in {1, 2} |-> [restaurant_id |-> 1, price |-> 1500, is_available |-> (m = 1)]]

RestaurantInputs == {1, 2, 3}

\* OrderCreate.items
QuantityInputs == {0, 1, 2}

ItemInputs == [menu_item_id : DOMAIN MenuItems, quantity : QuantityInputs]

ItemLists == UNION {[1..n -> ItemInputs] : n \in 0..MaxItems}

\* The registered name calculate_estimated_delivery_time.delay sends.
EstimatedDeliveryTask == "app.task.order_task.calculate_estimated_delivery_time"

\* The menu item query of create_order finds a row for the item.
ItemFound(restaurant_id, item) ==
    /\ item.menu_item_id \in DOMAIN MenuItems
    /\ MenuItems[item.menu_item_id].restaurant_id = restaurant_id
    /\ MenuItems[item.menu_item_id].is_available

RECURSIVE Subtotal(_)
Subtotal(items) ==
    IF items = <<>> THEN 0
    ELSE MenuItems[Head(items).menu_item_id].price * Head(items).quantity + Subtotal(Tail(items))

\* The first item the loop of create_order rejects (0: none).
FirstBad(restaurant_id, items) ==
    LET bad == {i \in DOMAIN items :
                   ~ItemFound(restaurant_id, items[i]) \/ items[i].quantity <= 0}
    IN IF bad = {} THEN 0 ELSE CHOOSE i \in bad : \A j \in bad : i <= j

\* The Order and OrderItem rows create_order adds and the job it sends.
Persisted(rows, its, q, user_id, restaurant_id, items, t) ==
    LET subtotal == Subtotal(items)
        tax_amount == (subtotal * 8) \div 100
        order_id == Len(rows) + 1
    IN [orders |-> Append(rows, [Order(t) EXCEPT
                                    !.customer_id = user_id,
                                    !.total_amount = subtotal
                                        + Restaurants[restaurant_id].delivery_fee + tax_amount]),
        order_items |-> its \o [i \in DOMAIN items |->
                                   [order_id |-> order_id,
                                    menu_item_id |-> items[i].menu_item_id,
                                    quantity |-> items[i].quantity]],
        queue |-> q (+) SetToBag({Message(EstimatedDeliveryTask, <<order_id>>)})]

Rejected(rows, its, q, status_code, error) ==
    [status_code |-> status_code, error |-> error,
     orders |-> rows, order_items |-> its, queue |-> q]

\* A create_order that checks the minimum after it has written the rows.
create_order_checklast(rows, its, q, user_id, restaurant_id, items, t) ==
    IF restaurant_id \notin DOMAIN Restaurants \/ ~Restaurants[restaurant_id].is_active
    THEN Rejected(rows, its, q, 404, "NotFoundException")
    ELSE IF FirstBad(restaurant_id, items) # 0
    THEN Rejected(rows, its, q, 422, "ValidationException")
    ELSE Persisted(rows, its, q, user_id, restaurant_id, items, t)
         @@ (IF Subtotal(items) < Restaurants[restaurant_id].minimum_order
             THEN [status_code |-> 422, error |-> "ValidationException"]
             ELSE [status_code |-> 200, error |-> "none"])

\* POST /orders (create_order): the restaurant, each item in turn, the
\* minimum order, then the Order row, its OrderItem rows and the job.
create_order(rows, its, q, user_id, restaurant_id, items, t) ==
    IF restaurant_id \notin DOMAIN Restaurants \/ ~Restaurants[restaurant_id].is_active
    THEN Rejected(rows, its, q, 404, "NotFoundException")
    ELSE IF FirstBad(restaurant_id, items) # 0
    THEN Rejected(rows, its, q, 422, "ValidationException")
    ELSE IF Subtotal(items) < Restaurants[restaurant_id].minimum_order
    THEN Rejected(rows, its, q, 422, "ValidationException")
    ELSE Persisted(rows, its, q, user_id, restaurant_id, items, t)
         @@ [status_code |-> 200, error |-> "none"]

InitCreate ==
    /\ orders = <<>>
    /\ queue = EmptyBag
    /\ now = 1
    /\ last = NoRun
    /\ PayIdle
    /\ ConcIdle
    /\ WsIdle
    /\ ItemsIdle

CreateOrder(user_id, restaurant_id, items) ==
    /\ Len(orders) < MaxCreated
    /\ LET r == create_order(orders, order_items, queue, user_id, restaurant_id, items, now)
       IN /\ orders' = r.orders
          /\ order_items' = r.order_items
          /\ queue' = r.queue
          /\ last' = [op |-> "create_order", user_id |-> user_id,
                      restaurant_id |-> restaurant_id, items |-> items,
                      status_code |-> r.status_code, error |-> r.error,
                      order_id |-> IF r.status_code = 200 THEN Len(r.orders) ELSE NULL,
                      before |-> [orders |-> Len(orders), order_items |-> Len(order_items),
                                  queue |-> BagCardinality(queue)]]
    /\ UNCHANGED <<payments, intent, now, sess, raced, events, hooked, manager, sockets>>

NextCreate ==
    \E u \in UserIds, r \in RestaurantInputs, items \in ItemLists : CreateOrder(u, r, items)

SpecCreate == InitCreate /\ [][NextCreate]_vars

(***************************************************************************)
(* Properties of the order state machine                                   *)
(***************************************************************************)
\* The legal transition graph as the design states it.
LegalGraph ==
    [PENDING |-> {"CONFIRMED", "CANCELLED"},
     CONFIRMED |-> {"PREPARING", "CANCELLED"},
     PREPARING |-> {"READY_FOR_PICKUP", "CANCELLED"},
     READY_FOR_PICKUP |-> {"OUT_FOR_DELIVERY"},
     OUT_FOR_DELIVERY |-> {"DELIVERED"},
     DELIVERED |-> {}, CANCELLED |-> {}, REFUNDED |-> {}]

TerminalStatuses == {"DELIVERED", "CANCELLED", "REFUNDED"}

\* The status a request or job payload asks for.
TargetOf(s) == CHOOSE T \in OrderStatus : s = T \/ s = OrderStatusValue[T]

\* The last step ran a status transition (service call or job) on an
\* existing order.
TransitionRan ==
    /\ last.op \in {"service", "job"}
    /\ last.before # NoOrder

\* The timestamp column the design pairs with a target status (NULL: none).
MatchingTimestamp(order, T) ==
    IF T = "PREPARING" THEN order.prepared_at
    ELSE IF T = "OUT_FOR_DELIVERY" THEN order.picked_up_at
    ELSE IF T = "DELIVERED" THEN order.delivered_at
    ELSE IF T \in {"CANCELLED", "REFUNDED"} THEN order.cancelled_at
    ELSE NULL

StampedTargets == {"PREPARING", "OUT_FOR_DELIVERY", "DELIVERED", "CANCELLED", "REFUNDED"}

\* C1: a transition (service call or job) whose target is not in the legal
\* graph for the order's current status fails and leaves the order's status
\* and transition timestamps as they were.
C1_IllegalTransitionRejected ==
    (TransitionRan /\ TargetOf(last.target) \notin LegalGraph[last.before.status])
        => (~last.ok /\ last.after = last.before)

\* C2: DELIVERED, CANCELLED and REFUNDED are absorbing: no step changes the
\* status of an order that is in one of them.
C2_TerminalAbsorbing ==
    [][\A o \in OrderIds :
          orders[o].status \in TerminalStatuses => orders'[o].status = orders[o].status]_vars

\* C3: of two transitions that read the same row state, the one that commits
\* second is rejected (ConcurrentModification): its write is not persisted and
\* the row stays as the first one wrote it.
C3_StaleWriteRejected ==
    (last.op = "commit" /\ last.stale) => last.after = last.before

C5_LegalTransitionApplied ==
    (TransitionRan /\ TargetOf(last.target) \in LegalGraph[last.before.status])
        => /\ last.ok
           /\ last.after.status = TargetOf(last.target)
           /\ (TargetOf(last.target) \in StampedTargets
                 => MatchingTimestamp(last.after, TargetOf(last.target)) = now - 1)

(***************************************************************************)
(* Properties of payment reconciliation                                    *)
(***************************************************************************)
\* Number of order transitions to CONFIRMED sent for an order.
Confirms(order_id) == CopiesIn(OrderTransition(order_id, "CONFIRMED"), queue)

\* p is the only payment of its order.
SolePayment(p) ==
    \A q \in DOMAIN payments : payments[q].order_id = payments[p].order_id => q = p

\* C6: once the webhook's process_payment job has found the PENDING payment's
\* intent succeeded and a poll has run after it, the payment is COMPLETED and
\* exactly one order transition to CONFIRMED has been sent for its order.
C6_ConvergesOnce ==
    \A p \in DOMAIN payments :
        (p \in hooked /\ SolePayment(p) /\ last.op = "poll")
            => /\ payments[p].status = "COMPLETED"
               /\ Confirms(payments[p].order_id) = 1

\* C7: delivering a webhook event that was already delivered changes no
\* payment, no order and sends no job.
C7_WebhookIdempotent ==
    [][(last'.op = "webhook" /\ last'.replay)
          => (payments' = payments /\ orders' = orders /\ queue' = queue)]_vars

\* C8: a process_payment job or a poll never changes a payment that is
\* COMPLETED or REFUNDED, and a process_payment job for it sends nothing.
C8_OnlyForward ==
    [][\A p \in DOMAIN payments :
          (payments[p].status \in {"COMPLETED", "REFUNDED"}
             /\ last'.op \in {"process_payment", "poll"})
            => /\ payments'[p] = payments[p]
               /\ (last'.op = "process_payment" /\ last'.payment_id = p) => last'.sent = 0]_vars

\* A process_payment message for payment p is waiting at the broker.
WebhookJobPending(p) == BagIn(Message(ProcessPaymentTask, <<p>>), queue)

\* C9: for a payment with a webhook job waiting and one provider answer,
\* running the process_payment job and then the poll gives the same payment
\* status and the same bag of sent messages as running the poll and then the
\* job.
C9_Commute ==
    \A p \in {q \in DOMAIN payments : WebhookJobPending(q)}, err \in BOOLEAN :
        LET errs == IF err THEN {p} ELSE {}
            w == process_payment(payments, queue, intent, p, err)
            wc == check_pending_payments(w.payments, w.queue, intent, now, errs)
            c == check_pending_payments(payments, queue, intent, now, errs)
            cw == process_payment(c.payments, c.queue, intent, p, err)
        IN /\ wc.payments[p].status = cw.payments[p].status
           /\ wc.queue = cw.queue

\* C10: for every payment that is PENDING and every provider answer (status
\* or error), the status process_stripe_payment leaves on the payment is the
\* status check_stripe_payment_status gives for the same answer.
C10_SameMapping ==
    \A p \in DOMAIN payments, err \in BOOLEAN :
        payments[p].status = "PENDING"
            => process_stripe_payment(payments[p], intent, err).payment.status
                 = check_stripe_payment_status(
                       Retrieve(intent, payments[p].stripe_payment_intent_id, err))

\* Number of order transitions to CANCELLED sent for an order, in a bag q.
Cancels(q, order_id) == CopiesIn(OrderTransition(order_id, "CANCELLED"), q)

\* p is old enough for the poll at time t.
PastGrace(p, t) == payments[p].created_at < t - PollGraceMinutes

\* C11: with no webhook delivered, a poll run whose provider queries all
\* answer leaves every payment that was PENDING or PROCESSING, past the
\* 5-minute grace window and whose intent has succeeded, COMPLETED with an
\* order transition to CONFIRMED sent for its order.
C11_PollCompletes ==
    [][(RunCheckPendingPayments({}) /\ events = {})
          => \A p \in DOMAIN payments :
                (payments[p].status \in {"PENDING", "PROCESSING"}
                   /\ PastGrace(p, now) /\ intent[p] = "succeeded")
                  => /\ payments'[p].status = "COMPLETED"
                     /\ CopiesIn(OrderTransition(payments[p].order_id, "CONFIRMED"), queue') >= 1]_vars

\* C12: a verified 'payment_intent.payment_failed' event for a payment that
\* is PENDING or PROCESSING moves the payment to FAILED and sends exactly one
\* order transition to CANCELLED for its order.
C12_FailedEventCancels ==
    [][\A e \in EventInputs :
          (/\ e.type = "payment_intent.payment_failed"
           /\ StripeWebhook(e, TRUE)
           /\ payments[e.intent_id].status \in {"PENDING", "PROCESSING"})
          => /\ payments'[e.intent_id].status = "FAILED"
             /\ Cancels(queue', payments[e.intent_id].order_id)
                  = Cancels(queue, payments[e.intent_id].order_id) + 1]_vars

\* C13: a provider error while the poll or the process_payment job queries a
\* payment leaves that payment's status as it was, and no order transition
\* to CANCELLED is sent for it.
C13_ProviderErrorKeepsStatus ==
    [][/\ \A errs \in SUBSET DOMAIN payments :
            RunCheckPendingPayments(errs)
              => \A p \in errs :
                    /\ payments'[p].status = payments[p].status
                    /\ SolePayment(p) => Cancels(queue', payments[p].order_id)
                                           = Cancels(queue, payments[p].order_id)
       /\ \A p \in DOMAIN payments :
            RunProcessPayment(p, TRUE) => payments'[p].status = payments[p].status]_vars

(***************************************************************************)
(* Properties of refunds and of create_payment_intent                      *)
(***************************************************************************)
\* The last step ran process_refund on an existing payment.
RefundRan == last.op = "refund" /\ last.found

\* The refund run failed and changed nothing: the row is the one it found,
\* and no message was sent.
RefundChangedNothing ==
    /\ ~last.ret
    /\ payments[last.payment_id] = last.before
    /\ last.sent = 0

\* C14: process_refund on a payment whose status is not COMPLETED returns
\* failure, leaves status, refund_amount and refunded_at as they were, and
\* sends neither the order transition to REFUNDED nor the notification.
C14_RefundNeedsCompleted ==
    (RefundRan /\ last.before.status # "COMPLETED") => RefundChangedNothing

\* C14 witness: process_refund ran on a PROCESSING payment whose intent has
\* succeeded, and the provider's refund succeeded.
C14_Witness ==
    /\ RefundRan
    /\ last.before.status = "PROCESSING"
    /\ intent[last.payment_id] = "succeeded"
    /\ last.refund = "succeeded"

\* C15: every payment has refund_amount <= amount, and a REFUNDED payment
\* has refunded_at set and refund_amount > 0.
C15_RefundInvariant ==
    \A p \in DOMAIN payments :
        /\ payments[p].refund_amount <= payments[p].amount
        /\ payments[p].status = "REFUNDED"
              => (payments[p].refunded_at # NULL /\ payments[p].refund_amount > 0)

\* C15 witness: process_refund ran on a COMPLETED payment for more than the
\* payment's amount, and the provider's refund succeeded.
C15_Witness ==
    /\ RefundRan
    /\ last.before.status = "COMPLETED"
    /\ last.refund_amount > last.before.amount
    /\ last.refund = "succeeded"

\* C16: when the provider's refund call raises or answers anything but
\* succeeded, process_refund returns failure, leaves the payment as it was
\* and sends neither the order transition nor the notification.
C16_ProviderFailureNoChange ==
    (RefundRan /\ last.refund # "succeeded") => RefundChangedNothing

\* C16 witness: process_refund ran on a COMPLETED payment and the provider
\* raised an error.
C16_Witness ==
    /\ RefundRan
    /\ last.before.status = "COMPLETED"
    /\ last.refund = StripeError

\* C17: no two payments belong to the same order.
C17_OnePaymentPerOrder ==
    \A p, q \in DOMAIN payments : payments[p].order_id = payments[q].order_id => p = q

\* C18: a create-intent call in which the provider call fails reports
\* failure and leaves the payment rows exactly as they were.
C18_ProviderFailureNoRow ==
    (last.op = "create_intent" /\ last.err) => (~last.ok /\ payments = last.before)

\* C18 witness: the provider call failed (the order was found and is the
\* caller's, the answer is 400) when a payment row already existed.
C18_Witness ==
    /\ last.op = "create_intent"
    /\ last.err
    /\ last.status_code = 400
    /\ Len(last.before) >= 1

(***************************************************************************)
(* Properties of delivery-partner assignment                               *)
(***************************************************************************)
\* C19: the commit of an accept_delivery request never replaces a delivery
\* partner the order already has: of the concurrent requests for a
\* READY_FOR_PICKUP order one wins and its partner stays stored.
C19_WinnerKept ==
    [][\A p \in Callers :
          (ServiceCommit(p) /\ orders[sess[p].order_id].delivery_partner_id # NULL)
            => orders'[sess[p].order_id].delivery_partner_id
                 = orders[sess[p].order_id].delivery_partner_id]_vars

\* C20: an order that is PENDING, CONFIRMED or PREPARING has no delivery
\* partner.
C20_NoPartnerBeforeReady ==
    \A o \in OrderIds :
        orders[o].status \in {"PENDING", "CONFIRMED", "PREPARING"}
            => orders[o].delivery_partner_id = NULL

(***************************************************************************)
(* Properties of the unpaid-order sweep.                                   *)
(***************************************************************************)
\* The order is PENDING and was placed more than the payment timeout ago.
SweepDueAt(order, t) ==
    /\ order.status = "PENDING"
    /\ order.created_at + AutoCancelMinutes < t

SweepDue(o) == SweepDueAt(orders[o], now)

\* The sweep's notifications for order o waiting in queue q.
CancelNotifications(q, o) == CopiesIn(CancelNotification(o), q)

\* C21: a sweep run over an order that is PENDING, was placed more than the
\* payment timeout ago and has no completed payment leaves it CANCELLED with
\* cancelled_at set and exactly one order_cancelled / Payment timeout
\* notification for its customer.
C21_SweepCancelsUnpaid ==
    [][AutoCancelUnpaidOrder =>
          \A o \in OrderIds :
              (SweepDue(o) /\ \A p \in DOMAIN payments :
                                 ~(payments[p].order_id = o /\ payments[p].status = "COMPLETED"))
                  => /\ orders'[o].status = "CANCELLED"
                     /\ orders'[o].cancelled_at # NULL
                     /\ CancelNotifications(queue', o) = CancelNotifications(queue, o) + 1]_vars

\* C22: a sweep that has just run changed only orders that are PENDING and
\* older than the payment timeout: every other order keeps its status and
\* cancelled_at and gets no cancellation notification.
C22_SweepFrame ==
    last.op = "sweep" =>
        \A o \in OrderIds :
            ~SweepDueAt(last.before[o], now - 1)
                => /\ orders[o].status = last.before[o].status
                   /\ orders[o].cancelled_at = last.before[o].cancelled_at
                   /\ CancelNotifications(last.sent, o) = 0

\* A sweep has just run over an order that is PENDING and within the timeout.
C22_Witness ==
    /\ last.op = "sweep"
    /\ \E o \in OrderIds :
          /\ last.before[o].status = "PENDING"
          /\ last.before[o].created_at + AutoCancelMinutes >= now - 1
          /\ orders[o] = last.before[o]

(***************************************************************************)
(* Properties of the connection registry                                   *)
(***************************************************************************)
\* Websocket w is in the role list of role r.
InRole(mgr, r, w) == \E i \in DOMAIN mgr.role_connection[r] : mgr.role_connection[r][i] = w

\* Websocket w is the user map's entry of some user.
InUsers(mgr, w) == \E u \in DOMAIN mgr.user_connection : mgr.user_connection[u] = w

\* C27: a connection is in a role's member list exactly when it is an entry
\* of the user map and was registered under that role.
C27_RoleMembership ==
    \A r \in RoleNames : \A w \in Handles :
        InRole(manager, r, w) <=> (InUsers(manager, w) /\ sockets[w].role = r)

SendOps == {"send_personal_msg", "send_to_role", "broadcast", "send_websocket_notification"}

\* The websockets a send wrote to.
Written(run) == {run.writes[i] : i \in DOMAIN run.writes}

\* A later connection of the same user exists.
Superseded(w) == \E w2 \in Handles : w2 > w /\ sockets[w2].user_id = sockets[w].user_id

\* C24: once a user has registered a second connection no send writes to the
\* first one, and a send to that user writes to the user's latest connection
\* only.
C24_SecondConnectionSupersedes ==
    last.op \in SendOps =>
        /\ \A w \in Written(last) : ~Superseded(w)
        /\ last.op = "send_personal_msg" =>
              \A w \in Written(last) : sockets[w].user_id = last.target

\* A send to a user who connected twice has written to the second connection.
C24_Witness ==
    /\ last.op = "send_personal_msg"
    /\ \E w \in Written(last) :
          \E w1 \in Handles : w1 < w /\ sockets[w1].user_id = sockets[w].user_id

\* C25: a send to one user whose write raises leaves that user with no entry
\* in the user map and the connection in no role list, and has written once;
\* and no send writes to a connection that failed in an earlier send to its
\* user.  (Every step of the registry records itself in last.)
C25_FailedSendEvicts ==
    [][/\ (last'.op = "send_personal_msg" /\ last'.failed # {})
            => /\ last'.target \notin DOMAIN manager'.user_connection
               /\ \A r \in RoleNames : \A w \in last'.failed : ~InRole(manager', r, w)
               /\ Len(last'.writes) = 1
       /\ last'.op \in SendOps
            => \A w \in Handles :
                  sockets[w].failed_in = "send_personal_msg" => w \notin Written(last')]_vars

\* A send to a user runs after an earlier send to that user failed on the
\* user's connection.
C25_Witness ==
    /\ last.op = "send_personal_msg"
    /\ \E w \in Handles :
          /\ sockets[w].user_id = last.target
          /\ sockets[w].failed_in = "send_personal_msg"
          /\ w \notin last.failed

\* C26: a send to a role writes to every connection registered under that
\* role; those whose write raised are left in neither the user map nor the
\* role list, the others stay registered.
C26_RoleSendReachesMembers ==
    last.op = "send_to_role" =>
        \A w \in Handles :
            (InUsers(last.before, w) /\ sockets[w].role = last.target)
                => /\ w \in Written(last)
                   /\ w \in last.failed
                        => ~InUsers(manager, w) /\ ~InRole(manager, last.target, w)
                   /\ w \notin last.failed => InUsers(manager, w)

\* C28: a disconnect completes without error, leaves the user in neither the
\* user map nor any role list and leaves every other user's entry as it was.
C28_UnregisterRemoves ==
    last.op = "disconnect" =>
        /\ last.error = "none"
        /\ last.user_id \notin DOMAIN manager.user_connection
        /\ \A r \in RoleNames : ~InRole(manager, r, last.ws)
        /\ \A u \in DOMAIN last.before.user_connection \ {last.user_id} :
              /\ u \in DOMAIN manager.user_connection
              /\ manager.user_connection[u] = last.before.user_connection[u]

(***************************************************************************)
(* Properties of order notifications                                       *)
(***************************************************************************)
\* The last step was a status change of an existing order that succeeded.
TransitionSucceeded ==
    /\ last.op \in {"service", "cancel", "job"}
    /\ last.before # NoOrder
    /\ last.ok

\* C29: after a successful status transition the queue holds exactly one
\* notification of it (old and new status) for the customer and one for the
\* restaurant's owner, and one for the delivery partner if one is assigned.
C29_TransitionNotifies ==
    TransitionSucceeded =>
        LET Notified(u) == CopiesIn(StatusNotification(u, last.order_id, last.before.status,
                                                       last.after.status), queue)
        IN /\ Notified(last.after.customer_id) = 1
           /\ Notified(RestaurantOwnerId) = 1
           /\ last.after.delivery_partner_id # NULL
                => Notified(last.after.delivery_partner_id) = 1

(***************************************************************************)
(* Properties of job retries, the webhook and the realtime entry points    *)
(***************************************************************************)
\* C31: a run of process_payment whose provider call fails transiently puts
\* a message on the broker: the retry of the job or its dead letter.
C31_TransientFailureRetried ==
    [][\A p \in DOMAIN payments :
          RunProcessPayment(p, TRUE) => BagCardinality(queue') > BagCardinality(queue)]_vars

BelowMinimum(restaurant_id, items) ==
    /\ restaurant_id \in DOMAIN Restaurants
    /\ Restaurants[restaurant_id].is_active
    /\ FirstBad(restaurant_id, items) = 0
    /\ Subtotal(items) < Restaurants[restaurant_id].minimum_order

\* C33: a request that has just been handled and whose subtotal is below
\* the restaurant's minimum order was rejected: no Order row, no OrderItem
\* row and no job were added.
C33_BelowMinimumRejected ==
    (last.op = "create_order" /\ BelowMinimum(last.restaurant_id, last.items))
        => /\ last.status_code = 422
           /\ Len(orders) = last.before.orders
           /\ Len(order_items) = last.before.order_items
           /\ BagCardinality(queue) = last.before.queue

\* A request with items worth less than the minimum has just been rejected
\* after an order had been created.
C33_Witness ==
    /\ last.op = "create_order"
    /\ BelowMinimum(last.restaurant_id, last.items)
    /\ last.items # <<>>
    /\ last.status_code = 422
    /\ Len(orders) = 1

(***************************************************************************)
(* Properties of the webhook's reconciliation and of who may enqueue       *)
(***************************************************************************)
\* C34: when the job a verified payment succeeded event started runs without
\* a provider error, the PENDING payment the event is about becomes
\* COMPLETED.
C34_EventPaymentReconciled ==
    [][\A x \in 0..MaxPayments :
          RunProcessPayment(x, FALSE)
              => \A e \in events :
                    (/\ e.type = "payment_intent.succeeded"
                     /\ payments[e.intent_id].order_id = x
                     /\ payments[e.intent_id].status = "PENDING")
                        => payments'[e.intent_id].status = "COMPLETED"]_vars

\* C35: a request or message of a restaurant owner puts a status job on the
\* queue only for PREPARING or READY_FOR_PICKUP, and a job for
\* OUT_FOR_DELIVERY or DELIVERED is put there only by the order's delivery
\* partner or an admin.
C35_RoleBoundTargets ==
    [][\A u \in EntryUsers, o \in OrderIds, s \in OrderStatus :
          LET m == Message(UpdateOrderStatusTask, <<o, OrderStatusValue[s]>>)
          IN ((EntryPatch(u, o, s) \/ WsOrderUpdate(u, o, OrderStatusValue[s]))
                /\ CopiesIn(m, queue') > CopiesIn(m, queue))
               => /\ UserRole[u] = "restaurant_owner"
                       => s \in {"PREPARING", "READY_FOR_PICKUP"}
                  /\ s \in {"OUT_FOR_DELIVERY", "DELIVERED"}
                       => (UserRole[u] = "admin" \/ orders[o].delivery_partner_id = u)]_vars

\* C36: an order_update message that has just been handled put a job on the
\* queue only if its sender is a restaurant owner and owns the restaurant of
\* the order it names, and it changed no order.
C36_OrderUpdateOwnerOnly ==
    last.op = "order_update" =>
        /\ orders = last.before
        /\ last.sent > 0
              => /\ UserRole[last.user_id] = "restaurant_owner"
                 /\ last.user_id = RestaurantOwnerId
                 /\ last.order_id \in OrderIds

\* The owner of another restaurant has just sent an order_update for an
\* existing order and nothing was put on the queue.
C36_Witness ==
    /\ last.op = "order_update"
    /\ UserRole[last.user_id] = "restaurant_owner"
    /\ last.user_id # RestaurantOwnerId
    /\ last.order_id \in OrderIds
    /\ last.target # ""
    /\ last.sent = 0

\* C37: no estimated-delivery-time job is on the queue for an order that is
\* still PENDING (one that never made the PENDING to CONFIRMED transition).
C37_EstimateOnlyOnConfirm ==
    \A o \in DOMAIN orders :
        orders[o].status = "PENDING"
            => CopiesIn(Message(EstimatedDeliveryTask, <<o>>), queue) = 0

(***************************************************************************)
(* Properties of cancellation and of the sweeps' follow-up jobs            *)
(***************************************************************************)
\* The order was past CONFIRMED.
PastConfirmed(order) == order # NoOrder /\ order.status \notin {"PENDING", "CONFIRMED"}

C39_FollowUpOnlyForCommitted ==
    /\ last.op = "poll" => last.sent <= Cardinality(last.updated)
    /\ last.op = "sweep" => BagCardinality(last.sent) <= last.cancelled_count

====
